---- MODULE Spec2Model ----
(***************************************************************************)
(* Gmsh MSH entry points of meshio (meshio/msh_io/main.py): read,          *)
(* read_buffer, _read_header and write.                                    *)
(*                                                                         *)
(* A file is a sequence of bytes followed by a body.  Every byte is a      *)
(* one-character string; the three raw bytes 0, 1 and 2 that occur in the  *)
(* binary endianness probe are written "x00", "x01" and "x02".  The header *)
(* block is read byte by byte, as main.py reads it.  The body is the part  *)
(* of the file the sub-format modules msh2, msh4_0 and msh4_1 own; it is   *)
(* kept as a record (those modules are not part of main.py).               *)
(*                                                                         *)
(* Floats are fixed-point integers with two decimals: 4.1 is 410.          *)
(***************************************************************************)
EXTENDS Integers, Sequences, FiniteSets, TLC

\* Largest number of points of a mesh handed to write.
MaxPoints == 2
\* Largest number of cells (over all cell types) of a mesh handed to write.
MaxCells == 2

\* sizeof(c_int), main.py line 22.
int_size == 4

-----------------------------------------------------------------------------
(* Bytes and text *)

Digits == <<"0", "1", "2", "3", "4", "5", "6", "7", "8", "9">>

\* The numeric value of every byte the model's files contain.
AsciiTable ==
    { <<"x00", 0>>, <<"x01", 1>>, <<"x02", 2>>,
      <<"\t", 9>>, <<"\n", 10>>, <<"\r", 13>>, <<" ", 32>>, <<"$", 36>>,
      <<"-", 45>>, <<".", 46>>,
      <<"0", 48>>, <<"1", 49>>, <<"2", 50>>, <<"3", 51>>, <<"4", 52>>,
      <<"5", 53>>, <<"6", 54>>, <<"7", 55>>, <<"8", 56>>, <<"9", 57>>,
      <<"E", 69>>, <<"F", 70>>, <<"M", 77>>, <<"N", 78>>,
      <<"a", 97>>, <<"d", 100>>, <<"e", 101>>, <<"h", 104>>, <<"m", 109>>,
      <<"n", 110>>, <<"o", 111>>, <<"r", 114>>, <<"s", 115>>, <<"t", 116>>,
      <<"x", 120>> }

ByteCode == [c \in { p[1] : p \in AsciiTable } |->
                (CHOOSE p \in AsciiTable : p[1] = c)[2]]

CodeByte == [v \in { p[2] : p \in AsciiTable } |->
                (CHOOSE p \in AsciiTable : p[2] = v)[1]]

ByteVal(c) == ByteCode[c]

ByteOf(v) == CodeByte[v]

Whitespace == {" ", "\t", "\n", "\r"}

MeshFormatTag == <<"$", "M", "e", "s", "h", "F", "o", "r", "m", "a", "t">>

EndMeshFormatTag ==
    <<"$", "E", "n", "d", "M", "e", "s", "h", "F", "o", "r", "m", "a", "t">>

\* f.readline(): the bytes after offset pos up to and including the next
\* newline, or up to the end of the file.
readline(bytes, pos) ==
    LET nl == { i \in (pos + 1)..Len(bytes) : bytes[i] = "\n" }
        stop == IF nl = {} THEN Len(bytes)
                ELSE CHOOSE i \in nl : \A j \in nl : i <= j
    IN  SubSeq(bytes, pos + 1, stop)

\* f.read(n): at most n bytes after offset pos.
fread(bytes, pos, n) ==
    SubSeq(bytes, pos + 1, IF pos + n <= Len(bytes) THEN pos + n ELSE Len(bytes))

\* str.strip(): leading and trailing whitespace removed.
strip(s) ==
    LET keep == { i \in 1..Len(s) : s[i] \notin Whitespace }
    IN  IF keep = {} THEN <<>>
        ELSE SubSeq(s, CHOOSE i \in keep : \A j \in keep : i <= j,
                       CHOOSE i \in keep : \A j \in keep : i >= j)

\* str.split(): the maximal runs of non-whitespace characters, in order.
RECURSIVE split(_)
split(s) ==
    LET keep == { i \in 1..Len(s) : s[i] \notin Whitespace }
    IN  IF keep = {} THEN <<>>
        ELSE LET first == CHOOSE i \in keep : \A j \in keep : i <= j
                 ws == { i \in first..Len(s) : s[i] \in Whitespace }
                 stop == IF ws = {} THEN Len(s) + 1
                         ELSE CHOOSE i \in ws : \A j \in ws : i <= j
             IN  <<SubSeq(s, first, stop - 1)>>
                     \o split(SubSeq(s, stop, Len(s)))

IsDigit(c) == \E d \in 1..10 : Digits[d] = c

DigitVal(c) == (CHOOSE d \in 1..10 : Digits[d] = c) - 1

\* The value of a string of decimal digits.
RECURSIVE DecVal(_)
DecVal(ds) ==
    IF ds = <<>> THEN 0
    ELSE 10 * DecVal(SubSeq(ds, 1, Len(ds) - 1)) + DigitVal(ds[Len(ds)])

\* float(token): an optional sign, digits, an optional point and digits (at
\* most two decimals, which is what the fixed-point value holds).  Any other
\* token raises ValueError.
float(tok) ==
    LET neg == tok # <<>> /\ tok[1] = "-"
        mag == IF neg THEN Tail(tok) ELSE tok
        dots == { i \in 1..Len(mag) : mag[i] = "." }
        dot == IF dots = {} THEN Len(mag) + 1 ELSE CHOOSE i \in dots : TRUE
        ip == SubSeq(mag, 1, dot - 1)
        fp == SubSeq(mag, dot + 1, Len(mag))
        ok == /\ Cardinality(dots) <= 1
              /\ Len(ip) + Len(fp) >= 1
              /\ Len(fp) <= 2
              /\ \A i \in 1..Len(ip) : IsDigit(ip[i])
              /\ \A i \in 1..Len(fp) : IsDigit(fp[i])
        frac == IF Len(fp) = 1 THEN 10 * DecVal(fp) ELSE DecVal(fp)
        val == 100 * DecVal(ip) + frac
    IN  IF ok THEN [ok |-> TRUE, val |-> IF neg THEN 0 - val ELSE val]
        ELSE [ok |-> FALSE, val |-> 0]

\* int(token): an optional sign and digits; any other token raises ValueError.
int(tok) ==
    LET neg == tok # <<>> /\ tok[1] = "-"
        mag == IF neg THEN Tail(tok) ELSE tok
        ok == Len(mag) >= 1 /\ \A i \in 1..Len(mag) : IsDigit(mag[i])
    IN  IF ok THEN [ok |-> TRUE, val |-> IF neg THEN 0 - DecVal(mag) ELSE DecVal(mag)]
        ELSE [ok |-> FALSE, val |-> 0]

\* int(x) of a float: truncation towards zero.
trunc(v) == IF v >= 0 THEN 100 * (v \div 100) ELSE 0 - 100 * ((0 - v) \div 100)

\* struct.unpack("i", b)[0]: the four bytes as a signed 32-bit integer in the
\* native byte order.
SignedByte(c) == IF ByteVal(c) >= 128 THEN ByteVal(c) - 256 ELSE ByteVal(c)

Reverse(s) == [i \in 1..Len(s) |-> s[Len(s) + 1 - i]]

\* unpack_i with the byte order fixed to little-endian ("<i" for "i").
unpack_i_little(b, order) ==
    ByteVal(b[1]) + 256 * ByteVal(b[2]) + 65536 * ByteVal(b[3])
        + 16777216 * SignedByte(b[4])

unpack_i(b, order) ==
    LET le == IF order = "little" THEN b ELSE Reverse(b)
    IN  ByteVal(le[1]) + 256 * ByteVal(le[2]) + 65536 * ByteVal(le[3])
            + 16777216 * SignedByte(le[4])

\* struct.pack of the integer v (0 <= v < 2^31) in width bytes in the given
\* byte order.
pack(v, width, order) ==
    LET le == [i \in 1..width |->
                  ByteOf(IF i > 4 THEN 0 ELSE (v \div (256 ^ (i - 1))) % 256)]
    IN  IF order = "little" THEN le ELSE Reverse(le)

-----------------------------------------------------------------------------
(* _read_header *)

NoErr == [exc |-> "none", line |-> 0]

HeaderFail(exc, ln, p) ==
    [ok |-> FALSE, pos |-> p, err |-> [exc |-> exc, line |-> ln],
     format_version |-> 0, data_size |-> 0, is_ascii |-> FALSE]

\* newline_ok that takes any line that ends in a newline.
newline_ok_rest_of_line(line) == line # <<>> /\ line[Len(line)] = "\n"

\* Line 69: assert line == "\n".
newline_ok(line) == line = <<"\n">>

\* Lines 66-71: the endianness probe and its newline in binary mode, then the
\* $EndMeshFormat line.  p is the offset after the header line.
read_header_tail(bytes, p, isz, order, format_version, data_size, is_ascii) ==
    LET one == fread(bytes, p, isz)
        p2 == p + Len(one)
        nl == readline(bytes, p2)
        p3 == IF is_ascii THEN p ELSE p2 + Len(nl)
        last == readline(bytes, p3)
        p4 == p3 + Len(last)
    IN  IF ~is_ascii /\ Len(one) # 4
          THEN HeaderFail("struct.error", 67, p2)
        ELSE IF ~is_ascii /\ unpack_i(one, order) # 1
          THEN HeaderFail("AssertionError", 67, p2)
        ELSE IF ~is_ascii /\ ~newline_ok(nl)
          THEN HeaderFail("AssertionError", 69, p3)
        ELSE IF strip(last) # EndMeshFormatTag
          THEN HeaderFail("AssertionError", 71, p4)
        ELSE [ok |-> TRUE, pos |-> p4, err |-> NoErr,
              format_version |-> format_version, data_size |-> data_size,
              is_ascii |-> is_ascii]

\* filetype_ok that compares the token's integer value (int(tok) in [0, 1]).
filetype_ok_int(tok) == int(tok).ok /\ int(tok).val \in {0, 1}

\* Line 60: assert str_list[1] in ["0", "1"].
filetype_ok(tok) == tok \in {<<"0">>, <<"1">>}

\* read_header that reads a probe of data_size bytes instead of int_size.
read_header_probe_datasize(bytes, pos0, isz, order) ==
    LET line == readline(bytes, pos0)
        p == pos0 + Len(line)
        str_list == split(line)
    IN  IF Len(str_list) < 1 THEN HeaderFail("IndexError", 59, p)
        ELSE IF ~float(str_list[1]).ok THEN HeaderFail("ValueError", 59, p)
        ELSE IF Len(str_list) < 2 THEN HeaderFail("IndexError", 60, p)
        ELSE IF ~filetype_ok(str_list[2]) THEN HeaderFail("AssertionError", 60, p)
        ELSE IF Len(str_list) < 3 THEN HeaderFail("IndexError", 62, p)
        ELSE IF ~int(str_list[3]).ok THEN HeaderFail("ValueError", 62, p)
        ELSE read_header_tail(bytes, p, int(str_list[3]).val, order,
                              float(str_list[1]).val, int(str_list[3]).val,
                              str_list[2] = <<"0">>)

\* _read_header(f, int_size) with f at offset pos0.  The result carries the
\* offset the stream is left at, and either the returned tuple or the
\* exception with the line that raises it.
read_header(bytes, pos0, isz, order) ==
    LET line == readline(bytes, pos0)
        p == pos0 + Len(line)
        str_list == split(line)
    IN  IF Len(str_list) < 1 THEN HeaderFail("IndexError", 59, p)
        ELSE IF ~float(str_list[1]).ok THEN HeaderFail("ValueError", 59, p)
        ELSE IF Len(str_list) < 2 THEN HeaderFail("IndexError", 60, p)
        ELSE IF ~filetype_ok(str_list[2]) THEN HeaderFail("AssertionError", 60, p)
        ELSE IF Len(str_list) < 3 THEN HeaderFail("IndexError", 62, p)
        ELSE IF ~int(str_list[3]).ok THEN HeaderFail("ValueError", 62, p)
        ELSE read_header_tail(bytes, p, isz, order, float(str_list[1]).val,
                              int(str_list[3]).val, str_list[2] = <<"0">>)

-----------------------------------------------------------------------------
(* The reader table of read_buffer *)

\* readers = {2: msh2, 4.0: msh4_0, 4.1: msh4_1}.  A Python dict finds a key
\* by numeric equality, so the keys 2 and 2.0 are one key, and so are 4 and
\* 4.0.
readers == (200 :> "msh2") @@ (400 :> "msh4_0") @@ (410 :> "msh4_1")

\* select_reader with the truncated lookup tried first.
select_reader_trunc_first(format_version) ==
    IF trunc(format_version) \in DOMAIN readers THEN readers[trunc(format_version)]
    ELSE IF format_version \in DOMAIN readers THEN readers[format_version]
    ELSE "none"

\* select_reader without the truncated lookup.
select_reader_exact(format_version) ==
    IF format_version \in DOMAIN readers THEN readers[format_version] ELSE "none"

\* Lines 27-35: readers[format_version], and on KeyError
\* readers[int(format_version)]; "none" when both raise KeyError.
select_reader(format_version) ==
    IF format_version \in DOMAIN readers THEN readers[format_version]
    ELSE IF trunc(format_version) \in DOMAIN readers
      THEN readers[trunc(format_version)]
    ELSE "none"

\* select_writer without the assert of line 79.
select_writer_no_assert(fmt_version) ==
    IF fmt_version = <<"2">> THEN "msh2" ELSE "msh4_0"

\* Lines 76-80: the writer that write selects; "none" when the assert fails.
select_writer(fmt_version) ==
    IF fmt_version = <<"2">> THEN "msh2"
    ELSE IF fmt_version = <<"4">> THEN "msh4_0"
    ELSE "none"

\* The write_binary argument write passes on to the writer (lines 77, 80).
writer_binary(write_binary) == write_binary

-----------------------------------------------------------------------------
(* Meshes and the sub-format modules msh2, msh4_0, msh4_1 *)

CellTypes == {"vertex", "line"}

\* Number of nodes of a cell of each type.
Arity(t) == IF t = "vertex" THEN 1 ELSE 2

\* Gmsh element type number of each cell type.
GmshType(t) == IF t = "vertex" THEN 15 ELSE 1

CellTypeOf(code) == CHOOSE t \in CellTypes : GmshType(t) = code

\* The order in which a writer emits the cell types.
TypeOrder == <<"vertex", "line">>

NoMesh == [set |-> FALSE, points |-> <<>>, cells |-> [t \in CellTypes |-> <<>>]]

NoBody ==
    [fmt |-> "none", ascii |-> TRUE, width |-> 0, nodes |-> <<>>, elements |-> <<>>]

NoFile == [exists |-> FALSE, bytes |-> <<>>, body |-> NoBody]

\* Decimal text of a number 0..9.
FormatDigit(n) == <<Digits[n + 1]>>

\* The version token each writer puts in the header line.
VersionToken(fmt) ==
    IF fmt = "msh2" THEN <<"2", ".", "2">>
    ELSE IF fmt = "msh4_0" THEN <<"4", ".", "0">>
    ELSE <<"4", ".", "1">>

\* Header Protocol, write side: $MeshFormat, the line with version, filetype
\* and datasize (the platform's integer width), in binary mode the integer 1
\* in native byte order and a newline, then $EndMeshFormat.
write_header(fmt, write_binary, order) ==
    MeshFormatTag \o <<"\n">>
        \o VersionToken(fmt) \o <<" ">>
        \o (IF write_binary THEN <<"1">> ELSE <<"0">>) \o <<" ">>
        \o FormatDigit(int_size) \o <<"\n">>
        \o (IF write_binary THEN pack(1, int_size, order) \o <<"\n">> ELSE <<>>)
        \o EndMeshFormatTag \o <<"\n">>

\* The element records of the cells of the types ts, in that order, with
\* 1-based node ids.
RECURSIVE write_elements(_, _)
write_elements(cells, ts) ==
    IF ts = <<>> THEN <<>>
    ELSE [i \in 1..Len(cells[Head(ts)]) |->
             [type |-> GmshType(Head(ts)),
              nodes |-> [k \in 1..Len(cells[Head(ts)][i]) |->
                            cells[Head(ts)][i][k] + 1]]]
         \o write_elements(cells, Tail(ts))

\* msh2.write / msh4_0.write: the file a writer produces for a mesh.
sub_write(fmt, m, write_binary, order) ==
    [exists |-> TRUE,
     bytes |-> write_header(fmt, write_binary, order),
     body |-> [fmt |-> fmt, ascii |-> ~write_binary, width |-> int_size,
               nodes |-> [i \in 1..Len(m.points) |-> [id |-> i, xyz |-> m.points[i]]],
               elements |-> write_elements(m.cells, TypeOrder)]]

\* The cells of one type among the element records, in file order, with
\* 0-based node indices.
read_cells(elements, t) ==
    LET mine == SelectSeq(elements, LAMBDA e : e.type = GmshType(t))
    IN  [i \in 1..Len(mine) |->
            [k \in 1..Len(mine[i].nodes) |-> mine[i].nodes[k] - 1]]

\* A body is well formed for a reader when it is in that reader's block
\* grammar and encoding, every element has the arity of its type and every
\* node id names a node.
body_ok(fmt, body, is_ascii, data_size) ==
    /\ body.fmt = fmt
    /\ body.ascii = is_ascii
    /\ is_ascii \/ body.width = data_size
    /\ \A i \in 1..Len(body.nodes) : body.nodes[i].id = i
    /\ \A i \in 1..Len(body.elements) :
          /\ \E t \in CellTypes : GmshType(t) = body.elements[i].type
          /\ Len(body.elements[i].nodes) = Arity(CellTypeOf(body.elements[i].type))
          /\ \A k \in 1..Len(body.elements[i].nodes) :
                body.elements[i].nodes[k] \in 1..Len(body.nodes)

\* reader.read_buffer(f, is_ascii, int_size, data_size) of the module fmt on
\* the body that follows the header: the mesh, or MalformedBodyError.
sub_read_buffer(fmt, body, is_ascii, isz, data_size) ==
    IF body_ok(fmt, body, is_ascii, data_size)
    THEN [ok |-> TRUE,
          mesh |-> [set |-> TRUE,
                    points |-> [i \in 1..Len(body.nodes) |-> body.nodes[i].xyz],
                    cells |-> [t \in CellTypes |-> read_cells(body.elements, t)]]]
    ELSE [ok |-> FALSE, mesh |-> NoMesh]

\* The error of the taxonomy that an exception raised at a line of main.py
\* stands for.
ErrorClass(e) ==
    IF e.line \in {21, 59, 60, 62, 69, 71} THEN "MalformedHeaderError"
    ELSE IF e.line = 67 THEN "EndiannessError"
    ELSE IF e.line \in {33, 79} THEN "UnsupportedVersionError"
    ELSE IF e.line = 37 THEN "MalformedBodyError"
    ELSE IF e.line = 11 THEN "OSError"
    ELSE "none"

-----------------------------------------------------------------------------
(* Inputs *)

\* Native byte orders of the platform the program runs on.
Orders == {"little", "big"}

SeqsUpTo(S, n) == UNION { [1..k -> S] : k \in 0..n }

\* The point lists of the meshes: up to MaxPoints points, no two alike, in
\* one order and in the reverse order.
PointLists ==
    UNION { { [i \in 1..n |-> <<i, 0, 2>>], [i \in 1..n |-> <<n - i, 1, 0>>] } :
              n \in 0..MaxPoints }

\* The cells of type t over n points: tuples of distinct 0-based indices.
CellTuples(t, n) ==
    { c \in [1..Arity(t) -> 0..(n - 1)] : \A i, j \in 1..Arity(t) : i # j => c[i] # c[j] }

\* The meshes handed to write: every point list with every choice of at most
\* MaxCells cells over its points.
Meshes ==
    UNION { { [set |-> TRUE, points |-> ps, cells |-> [vertex |-> q[1], line |-> q[2]]] :
                q \in { r \in SeqsUpTo(CellTuples("vertex", Len(ps)), MaxCells)
                                \X SeqsUpTo(CellTuples("line", Len(ps)), MaxCells) :
                          Len(r[1]) + Len(r[2]) <= MaxCells } } :
            ps \in PointLists }

\* The fmt_version arguments handed to write.
WriteVersions ==
    { <<"2">>, <<"4">>, <<"2", ".", "2">>, <<"4", ".", "0">>, <<"4", ".", "1">>,
      <<"3">>, <<>> }

VersionTokens ==
    { <<"2">>, <<"2", ".", "0">>, <<"2", ".", "2">>, <<"3", ".", "0">>,
      <<"4", ".", "0">>, <<"4", ".", "1">>, <<"4", ".", "2">>, <<"4", ".", "5">> }

FiletypeTokens == { <<"0">>, <<"1">> }

BadFiletypeTokens == { <<"2">>, <<"0", "1">>, <<"1", ".", "0">>, <<"-", "1">> }

DatasizeTokens == { <<"4">>, <<"8">> }

HeaderLine(v, t, d) == v \o <<" ">> \o t \o <<" ">> \o d \o <<"\n">>

\* Header lines that _read_header accepts: three tokens, and one with other
\* whitespace and a fourth token.
HeaderLines ==
    { HeaderLine(v, t, d) :
        <<v, t, d>> \in VersionTokens \X FiletypeTokens \X DatasizeTokens }
    \cup { <<" ", "2", ".", "2", "\t", "0", " ", " ", "8", " ", "9", "\r", "\n">> }

\* Header lines that _read_header rejects: a filetype other than 0 and 1, a
\* version or datasize that is no number, tokens missing.
BadHeaderLines ==
    { HeaderLine(v, t, d) :
        <<v, t, d>> \in VersionTokens \X BadFiletypeTokens \X DatasizeTokens }
    \cup { <<"\n">>,
           <<"x", " ", "0", " ", "8", "\n">>,
           <<"4", ".", "1", "\n">>,
           <<"4", ".", "1", " ", "0", "\n">>,
           <<"4", ".", "1", " ", "0", " ", "x", "\n">> }

\* What follows the header line where the probe belongs: nothing, or an
\* integer in 4 or 8 bytes in either byte order, or a single byte.
Probes ==
    { <<>>, <<"x01">> }
    \cup { pack(v, w, o) : <<v, w, o>> \in {1, 2} \X {4, 8} \X Orders }

Separators == { <<>>, <<"\n">> }

EndLines ==
    { EndMeshFormatTag \o <<"\n">>,
      <<" ">> \o EndMeshFormatTag \o <<" ", "\r", "\n">>,
      EndMeshFormatTag,
      <<"$", "E", "n", "d", "\n">>,
      <<>> }

\* An MSH2 ascii body: one node and one vertex element on it.
SampleBody ==
    [fmt |-> "msh2", ascii |-> TRUE, width |-> 8,
     nodes |-> <<[id |-> 1, xyz |-> <<1, 0, 2>>]>>,
     elements |-> <<[type |-> 15, nodes |-> <<1>>]>>]

FirstLines ==
    { MeshFormatTag \o <<"\n">>,
      <<" ">> \o MeshFormatTag \o <<" ", "\r", "\n">>,
      <<"$", "M", "e", "s", "h", "\n">>,
      <<>> }

\* What a well-formed ascii and a well-formed binary file have after the
\* header line.
GoodTails ==
    { EndMeshFormatTag \o <<"\n">> }
    \cup { pack(1, int_size, o) \o <<"\n">> \o EndMeshFormatTag \o <<"\n">> :
             o \in Orders }

\* The files read: after a plain $MeshFormat line, every accepted header
\* line with every probe, separator and end line, with and without the
\* sample body; and every first line and header line with the well-formed
\* tails.
InputFiles ==
    { [exists |-> TRUE,
       bytes |-> MeshFormatTag \o <<"\n">> \o h \o p \o s \o e,
       body |-> b] :
        <<h, p, s, e, b>> \in
            HeaderLines \X Probes \X Separators \X EndLines \X {NoBody, SampleBody} }
    \cup { [exists |-> TRUE, bytes |-> l \o h \o r, body |-> SampleBody] :
             <<l, h, r>> \in FirstLines \X (HeaderLines \cup BadHeaderLines) \X GoodTails }

-----------------------------------------------------------------------------
(* The program *)

VARIABLES
    order,      \* native byte order of the platform
    fs,         \* the file named filename
    pc,         \* position of the caller: idle, inside read, returned, raised
    handle,     \* the file object f of read: none, open, closed
    pos,        \* offset of f
    hdr,        \* (format_version, data_size, is_ascii) returned by _read_header
    reader,     \* the module read_buffer selected
    calls,      \* number of calls of reader.read_buffer
    readerPos,  \* offset of f when reader.read_buffer was called
    mesh,       \* the mesh read returns
    err,        \* the exception read raises
    steps,      \* the steps of read taken so far, in order
    wcall,      \* the arguments of the call of write
    writer,     \* the module whose write was called
    wcalls,     \* number of calls of a writer
    wbinary,    \* the write_binary argument the writer received
    werr        \* the exception write raises

vars == <<order, fs, pc, handle, pos, hdr, reader, calls, readerPos, mesh, err,
          steps, wcall, writer, wcalls, wbinary, werr>>

readVars == <<handle, pos, hdr, reader, calls, readerPos, mesh, err, steps>>

writeVars == <<wcall, writer, wcalls, wbinary, werr>>

NoHdr == [set |-> FALSE, format_version |-> 0, data_size |-> 0, is_ascii |-> FALSE]

NoCall == [made |-> FALSE, fmt_version |-> <<>>, write_binary |-> FALSE, mesh |-> NoMesh]

Init ==
    /\ order \in Orders
    /\ fs \in InputFiles \cup {NoFile}
    /\ pc = "idle"
    /\ handle = "none"
    /\ pos = 0
    /\ hdr = NoHdr
    /\ reader = "none"
    /\ calls = 0
    /\ readerPos = 0
    /\ mesh = NoMesh
    /\ err = NoErr
    /\ steps = <<>>
    /\ wcall = NoCall
    /\ writer = "none"
    /\ wcalls = 0
    /\ wbinary = FALSE
    /\ werr = NoErr

\* after with the exception swallowed.
after_continue(ok, nxt) == nxt

\* Where read_buffer goes on after a statement: to the next statement, or,
\* when the statement raised, out of read_buffer and the with block.
after(ok, nxt) == IF ok THEN nxt ELSE "exit_with"

\* with_exit that closes f only when the block returns.
with_exit_leak(raised) == IF raised THEN "open" ELSE "closed"

\* The state of f after the with block of read is left (lines 11-12), on
\* return and on an exception alike.
with_exit(raised) == "closed"

\* Line 11: open(filename, "rb").
Open ==
    /\ pc = "idle"
    /\ steps' = Append(steps, "open")
    /\ IF fs.exists
         THEN /\ handle' = "open"
              /\ pos' = 0
              /\ pc' = "read_buffer"
              /\ err' = err
         ELSE /\ err' = [exc |-> "FileNotFoundError", line |-> 11]
              /\ pc' = "raised"
              /\ UNCHANGED <<handle, pos>>
    /\ UNCHANGED <<order, fs, hdr, reader, calls, readerPos, mesh>>
    /\ UNCHANGED writeVars

\* Lines 20-21: the $MeshFormat line.
CheckMeshFormat ==
    /\ pc = "read_buffer"
    /\ LET line == readline(fs.bytes, pos)
           ok == strip(line) = MeshFormatTag
       IN  /\ pos' = pos + Len(line)
           /\ err' = IF ok THEN err ELSE [exc |-> "AssertionError", line |-> 21]
           /\ pc' = after(ok, "read_header")
    /\ steps' = Append(steps, "MeshFormat")
    /\ UNCHANGED <<order, fs, handle, hdr, reader, calls, readerPos, mesh>>
    /\ UNCHANGED writeVars

\* Line 23: _read_header(f, int_size).
ReadHeader ==
    /\ pc = "read_header"
    /\ LET h == read_header(fs.bytes, pos, int_size, order)
       IN  /\ pos' = h.pos
           /\ hdr' = IF h.ok
                     THEN [set |-> TRUE, format_version |-> h.format_version,
                           data_size |-> h.data_size, is_ascii |-> h.is_ascii]
                     ELSE hdr
           /\ err' = IF h.ok THEN err ELSE h.err
           /\ pc' = after(h.ok, "select")
    /\ steps' = Append(steps, "header")
    /\ UNCHANGED <<order, fs, handle, reader, calls, readerPos, mesh>>
    /\ UNCHANGED writeVars

\* Lines 25-35: the reader for the version, or ValueError.
SelectReader ==
    /\ pc = "select"
    /\ LET r == select_reader(hdr.format_version)
       IN  /\ reader' = r
           /\ err' = IF r # "none" THEN err ELSE [exc |-> "ValueError", line |-> 33]
           /\ pc' = after(r # "none", "invoke")
    /\ steps' = Append(steps, "select")
    /\ UNCHANGED <<order, fs, handle, pos, hdr, calls, readerPos, mesh>>
    /\ UNCHANGED writeVars

\* Line 37: reader.read_buffer(f, is_ascii, int_size, data_size).  The reader
\* finds the body where the file's bytes end; at any other offset what it
\* finds is no body of its format.
InvokeReader ==
    /\ pc = "invoke"
    /\ LET body == IF pos = Len(fs.bytes) THEN fs.body ELSE NoBody
           res == sub_read_buffer(reader, body, hdr.is_ascii, int_size, hdr.data_size)
       IN  /\ mesh' = IF res.ok THEN res.mesh ELSE mesh
           /\ err' = IF res.ok THEN err
                     ELSE [exc |-> "MalformedBodyError", line |-> 37]
    /\ calls' = calls + 1
    /\ readerPos' = pos
    /\ pos' = Len(fs.bytes)
    /\ pc' = "exit_with"
    /\ steps' = Append(steps, "reader")
    /\ UNCHANGED <<order, fs, handle, hdr, reader>>
    /\ UNCHANGED writeVars

\* Lines 11-13: the with block is left, and read returns the mesh or the
\* exception goes on to the caller.
ExitWith ==
    /\ pc = "exit_with"
    /\ handle' = with_exit(err # NoErr)
    /\ pc' = IF err = NoErr THEN "returned" ELSE "raised"
    /\ steps' = Append(steps, "exit")
    /\ UNCHANGED <<order, fs, pos, hdr, reader, calls, readerPos, mesh, err>>
    /\ UNCHANGED writeVars

\* Lines 75-81: write(filename, mesh, fmt_version, write_binary) for the
\* arguments m, v and b.
write(m, v, b) ==
    /\ wcall' = [made |-> TRUE, fmt_version |-> v, write_binary |-> b, mesh |-> m]
    /\ LET w == select_writer(v)
       IN  IF w # "none"
           THEN /\ writer' = w
                /\ wcalls' = wcalls + 1
                /\ wbinary' = writer_binary(b)
                /\ fs' = sub_write(w, m, writer_binary(b), order)
                /\ werr' = werr
           ELSE /\ werr' = [exc |-> "AssertionError", line |-> 79]
                /\ UNCHANGED <<fs, writer, wcalls, wbinary>>

\* The caller calls write, once, for a file that does not exist yet.
Write ==
    /\ pc = "idle"
    /\ ~wcall.made
    /\ ~fs.exists
    /\ \E m \in Meshes, v \in WriteVersions, b \in BOOLEAN : write(m, v, b)
    /\ UNCHANGED <<order, pc>>
    /\ UNCHANGED readVars

Next ==
    \/ Open
    \/ CheckMeshFormat
    \/ ReadHeader
    \/ SelectReader
    \/ InvokeReader
    \/ ExitWith
    \/ Write

Spec == Init /\ [][Next]_vars

-----------------------------------------------------------------------------
(* Properties *)

Done(step) == \E i \in 1..Len(steps) : steps[i] = step

Finished == pc \in {"returned", "raised"}

\* The file's first line is the $MeshFormat line.
FirstLineOk == strip(readline(fs.bytes, 0)) = MeshFormatTag

\* The bytes of the file from offset a + 1 to offset b, or to its end.
Slice(a, b) == SubSeq(fs.bytes, a + 1, IF b <= Len(fs.bytes) THEN b ELSE Len(fs.bytes))

\* The header block of the file laid out as the format prescribes: the
\* tokens of the header line, the offset where that line ends, the int_size
\* bytes after it and whether they are the integer 1 in native byte order,
\* whether a newline follows them, and the line that must be $EndMeshFormat
\* (after the header line in ascii mode, after the probe and its newline in
\* binary mode).
Layout ==
    LET e1 == Len(readline(fs.bytes, 0))
        hl == readline(fs.bytes, e1)
        e2 == e1 + Len(hl)
        toks == split(hl)
        lineOk == /\ Len(toks) >= 3
                  /\ float(toks[1]).ok
                  /\ toks[2] \in {<<"0">>, <<"1">>}
                  /\ int(toks[3]).ok
        ascii == lineOk /\ toks[2] = <<"0">>
        start == IF ascii THEN e2 ELSE e2 + int_size + 1
        endLine == readline(fs.bytes, start)
    IN  [toks |-> toks,
         lineOk |-> lineOk,
         ascii |-> ascii,
         binary |-> lineOk /\ toks[2] = <<"1">>,
         probe |-> Slice(e2, e2 + int_size),
         probeOk |-> Slice(e2, e2 + int_size) = pack(1, int_size, order),
         newline |-> Slice(e2 + int_size, e2 + int_size + 1) = <<"\n">>,
         endOk |-> strip(endLine) = EndMeshFormatTag,
         endStart |-> start,
         endStop |-> start + Len(endLine),
         headerLineEnd |-> e2]

\* The version token of the header line is tok.
VersionIs(L, tok) == Len(L.toks) >= 1 /\ L.toks[1] = tok

\* C1: after a well-formed header, version token "2.2", "2" or "2.0" selects
\* the MSH2 reader, "4.0" the MSH4.0 reader, "4.1" the MSH4.1 reader, and
\* "3.0" selects no reader and fails with UnsupportedVersionError.
C1_VersionDispatch ==
    (hdr.set /\ Done("select")) =>
        LET L == Layout
        IN  /\ (VersionIs(L, <<"2", ".", "2">>) \/ VersionIs(L, <<"2">>)
                    \/ VersionIs(L, <<"2", ".", "0">>)) => reader = "msh2"
            /\ VersionIs(L, <<"4", ".", "0">>) => reader = "msh4_0"
            /\ VersionIs(L, <<"4", ".", "1">>) => reader = "msh4_1"
            /\ VersionIs(L, <<"3", ".", "0">>) =>
                  /\ reader = "none"
                  /\ calls = 0
                  /\ ErrorClass(err) = "UnsupportedVersionError"
            /\ reader # "none" => err.line # 33

C1_Witness ==
    /\ Finished /\ calls = 1
    /\ VersionIs(Layout, <<"2", ".", "2">>)
    /\ reader = "msh2"

\* C2: a version with integer part 4 that is neither 4.0 nor 4.1 selects no
\* reader: read_buffer fails with UnsupportedVersionError and no sub-format
\* reader is invoked.
C2_NoTruncationToMsh4 ==
    (hdr.set /\ Done("select")
        /\ trunc(hdr.format_version) = 400
        /\ hdr.format_version \notin {400, 410}) =>
            /\ reader = "none"
            /\ calls = 0
            /\ ErrorClass(err) = "UnsupportedVersionError"

C4_EndiannessMismatch ==
    (Done("header") /\ FirstLineOk) =>
        LET L == Layout
        IN  (L.binary /\ ~L.probeOk) =>
                /\ ErrorClass(err) = "EndiannessError"
                /\ ~hdr.set
                /\ calls = 0
                /\ ~mesh.set
                /\ pc # "returned"

C4_Witness ==
    /\ pc = "raised" /\ Layout.binary
    /\ Layout.probe = pack(1, int_size, IF order = "little" THEN "big" ELSE "little")
    /\ err = [exc |-> "AssertionError", line |-> 67]

\* The file is a well-formed header block in binary mode whose probe is the
\* integer 1 in w bytes in native byte order: $MeshFormat, a header line
\* with filetype 1, the probe, a newline and $EndMeshFormat.
BinaryHeaderFile(L, w) ==
    /\ L.binary
    /\ fs.bytes = MeshFormatTag \o <<"\n">>
                    \o HeaderLine(L.toks[1], L.toks[2], L.toks[3])
                    \o pack(1, w, order) \o <<"\n">> \o EndMeshFormatTag \o <<"\n">>

\* C5 as stated: the probe is datasize bytes wide, so for every declared
\* datasize a well-formed binary header with the integer 1 in datasize bytes
\* is read successfully and returns that data_size.
C5_ProbeIsDatasizeWide ==
    Done("header") =>
        LET L == Layout
        IN  (L.lineOk /\ int(L.toks[3]).val \in 1..8
                /\ BinaryHeaderFile(L, int(L.toks[3]).val)) =>
                    /\ hdr.set
                    /\ hdr.data_size = int(L.toks[3]).val
                    /\ ~hdr.is_ascii

\* C5 as amended: the probe is sizeof(c_int) = 4 bytes wide whatever the
\* declared datasize, so for every declared datasize a well-formed binary
\* header with the integer 1 in 4 bytes is read successfully, returns that
\* data_size and leaves the stream after the $EndMeshFormat line.
C5_ProbeIsIntWide ==
    Done("header") =>
        LET L == Layout
        IN  (L.lineOk /\ BinaryHeaderFile(L, int_size)) =>
                /\ hdr.set
                /\ hdr.data_size = int(L.toks[3]).val
                /\ ~hdr.is_ascii
                /\ Done("reader") \/ pos = Len(fs.bytes)
                /\ calls = 1 => readerPos = Len(fs.bytes)

C5_Witness ==
    /\ Finished /\ calls = 1
    /\ BinaryHeaderFile(Layout, int_size)
    /\ hdr.set /\ hdr.data_size = 8

\* C6: write with version "2" invokes exactly the MSH2 writer, with "4"
\* exactly the MSH4.0 writer, and with any other version fails with
\* UnsupportedVersionError and invokes no writer; the MSH4.1 writer is never
\* invoked, and the writer receives write_binary unchanged.
C6_WriteDispatch ==
    wcall.made =>
        /\ wcall.fmt_version = <<"2">> =>
              writer = "msh2" /\ wcalls = 1 /\ werr = NoErr /\ fs.body.fmt = "msh2"
        /\ wcall.fmt_version = <<"4">> =>
              writer = "msh4_0" /\ wcalls = 1 /\ werr = NoErr /\ fs.body.fmt = "msh4_0"
        /\ wcall.fmt_version \notin {<<"2">>, <<"4">>} =>
              /\ writer = "none" /\ wcalls = 0 /\ ~fs.exists
              /\ ErrorClass(werr) = "UnsupportedVersionError"
        /\ writer # "msh4_1"
        /\ writer # "none" =>
              wbinary = wcall.write_binary /\ fs.body.ascii = ~wcall.write_binary

C6_Witness ==
    /\ wcall.made /\ wcall.fmt_version = <<"4">> /\ ~wcall.write_binary
    /\ writer = "msh4_0" /\ wbinary = FALSE

\* C7: a filetype token other than "0" and "1" makes the header read fail
\* with MalformedHeaderError with the stream left at the end of the header
\* line; on success is_ascii is true exactly when the token is "0", and
\* version and data_size are the values of the first and third tokens.
C7_Filetype ==
    (Done("header") /\ FirstLineOk) =>
        LET L == Layout
        IN  /\ (Len(L.toks) >= 2 /\ L.toks[2] \notin {<<"0">>, <<"1">>}) =>
                  /\ ErrorClass(err) = "MalformedHeaderError"
                  /\ ~hdr.set
                  /\ pos = L.headerLineEnd
                  /\ calls = 0
            /\ hdr.set =>
                  /\ Len(L.toks) >= 3
                  /\ hdr.is_ascii = (L.toks[2] = <<"0">>)
                  /\ L.toks[2] \in {<<"0">>, <<"1">>}
                  /\ hdr.format_version = float(L.toks[1]).val
                  /\ hdr.data_size = int(L.toks[3]).val

C7_Witness ==
    /\ pc = "raised" /\ FirstLineOk
    /\ Len(Layout.toks) >= 2 /\ Layout.toks[2] = <<"0", "1">>
    /\ err = [exc |-> "AssertionError", line |-> 60]
    /\ Len(fs.bytes) > Layout.headerLineEnd

\* C8: in binary mode a newline must directly follow the probe, and its
\* absence fails with MalformedHeaderError; in both modes the next line must
\* be $EndMeshFormat after trimming, otherwise the read fails with
\* MalformedHeaderError; in ascii mode that line directly follows the header
\* line.  A header that passes leaves the stream at the end of that line.
C8_Terminators ==
    (Done("header") /\ FirstLineOk) =>
        LET L == Layout
            atEnd == L.ascii \/ (L.binary /\ L.probeOk /\ L.newline)
        IN  /\ (L.binary /\ L.probeOk /\ ~L.newline) =>
                  ~hdr.set /\ ErrorClass(err) = "MalformedHeaderError" /\ calls = 0
            /\ (atEnd /\ ~L.endOk) =>
                  ~hdr.set /\ ErrorClass(err) = "MalformedHeaderError" /\ calls = 0
            /\ (atEnd /\ L.endOk) =>
                  hdr.set /\ (Done("reader") \/ pos = L.endStop)
            /\ (hdr.set /\ hdr.is_ascii) =>
                  L.ascii /\ L.endStart = L.headerLineEnd /\ L.endOk

C8_Witness ==
    /\ pc = "raised" /\ Layout.binary /\ Layout.probeOk /\ ~Layout.newline
    /\ err = [exc |-> "AssertionError", line |-> 69]

\* C9: the file object read opens is closed on every exit path: when read
\* has returned or raised, no handle is open, and a handle that was opened
\* is closed.
C9_HandleClosed ==
    /\ Finished => handle # "open"
    /\ (Finished /\ fs.exists) => handle = "closed"
    /\ handle = "open" => pc \in {"read_buffer", "read_header", "select", "invoke", "exit_with"}

C9_Witness ==
    /\ pc = "raised" /\ handle = "closed"
    /\ err = [exc |-> "MalformedBodyError", line |-> 37]

ReadOrder == <<"open", "MeshFormat", "header", "select", "reader">>

\* C10: one read takes its steps in the order $MeshFormat line, header block,
\* version resolution, sub-format reader; the reader is invoked at most once,
\* only after all earlier steps succeeded, with the stream on the first byte
\* after the $EndMeshFormat line; a read that fails returns no mesh.
C10_ReadOrder ==
    /\ calls <= 1
    /\ LET work == SelectSeq(steps, LAMBDA x : x # "exit")
       IN  Len(work) <= Len(ReadOrder) /\ work = SubSeq(ReadOrder, 1, Len(work))
    /\ calls = 1 =>
          /\ Done("reader")
          /\ FirstLineOk /\ hdr.set /\ reader # "none"
          /\ \E s \in 0..readerPos :
                /\ readline(fs.bytes, s) = Slice(s, readerPos)
                /\ strip(Slice(s, readerPos)) = EndMeshFormatTag
                /\ s = 0 \/ fs.bytes[s] = "\n"
    /\ (err # NoErr /\ err.line # 37) => calls = 0
    /\ Done("reader") => calls = 1
    /\ pc = "raised" => ~mesh.set
    /\ mesh.set => calls = 1 /\ err = NoErr

C10_Witness ==
    /\ pc = "returned" /\ mesh.set /\ calls = 1
    /\ steps = ReadOrder \o <<"exit">>
    /\ readerPos = Len(fs.bytes)

====
